---- MODULE Spec2Model ----
(***************************************************************************)
(* Model of the Black-Scholes options analyzer (src/script.js):            *)
(* BlackScholesCalculator (pricing, Greeks, implied-volatility solver,     *)
(* analysis, trading signal) and OptionsAnalyzerUI (form handling and the  *)
(* DOM it writes).                                                         *)
(*                                                                         *)
(* JavaScript Numbers are modelled as decimal fixed-point values: the      *)
(* integer n stands for the real n / SCALE.  Three further values stand    *)
(* for +Infinity, -Infinity and NaN, and arithmetic propagates them as     *)
(* IEEE-754 does (a finite result too large for the representation         *)
(* becomes an infinity).  Negative zero is not distinguished from zero.    *)
(***************************************************************************)
EXTENDS Integers, Sequences, FiniteSets, TLC

(***************************************************************************)
(* Number representation                                                   *)
(***************************************************************************)
SCALE == 10^7
Limit == 2 * 10^9
PInf == Limit + 1
NInf == 0 - (Limit + 1)
NaN == Limit + 2
\* JavaScript null (an absent optional form value)
Null == Limit + 3

\* A local constant of the code: v is computed where the code computes it
\* and In is the rest of the function, which reads it.
Let(v, In(_)) == CASE v = v -> In(v)

IsNaN(x) == x = NaN
IsFinite(x) == x > NInf /\ x < PInf
Saturate(v) == IF v >= Limit THEN PInf ELSE IF v <= 0 - Limit THEN NInf ELSE v
Sign(x) == IF x < 0 THEN 0 - 1 ELSE 1
Mag(x) == IF x < 0 THEN 0 - x ELSE x

\* n further decimal digits of r / b (r < b) appended to acc, rounded
RECURSIVE DivDigits(_, _, _, _)
DivDigits(r, b, n, acc) ==
    IF n = 0 THEN acc + (IF 2 * r >= b THEN 1 ELSE 0)
    ELSE DivDigits((r * 10) % b, b, n - 1, acc * 10 + (r * 10) \div b)

\* the decimal literal p/q (p >= 0, q a power of ten), rounded to the
\* representation
RECURSIVE Lit(_, _)
Lit(p, q) ==
    IF q > 10^8 THEN Lit((p + 5) \div 10, q \div 10)
    ELSE (p \div q) * SCALE + DivDigits(p % q, q, 7, 0)
\* an integer literal
Int2Num(n) == n * SCALE

Neg(x) == IF x = NaN THEN NaN ELSE 0 - x
Abs(x) == IF x = NaN THEN NaN ELSE Mag(x)

Add(a, b) ==
    IF a = NaN \/ b = NaN THEN NaN
    ELSE IF a = PInf THEN (IF b = NInf THEN NaN ELSE PInf)
    ELSE IF a = NInf THEN (IF b = PInf THEN NaN ELSE NInf)
    ELSE IF b = PInf \/ b = NInf THEN b
    ELSE Saturate(a + b)

Sub(a, b) == Add(a, Neg(b))

\* |a| * |b| / SCALE for magnitudes below Limit, without leaving 32 bits
MulMag(a, b) ==
    LET a1 == a \div 10000
        a0 == a % 10000
        b1 == b \div 10000
        b0 == b % 10000
    IN  IF a1 > 0 /\ b1 > (Limit \div 10) \div a1 THEN PInf
        ELSE LET t1 == a1 * b0
                 t2 == a0 * b1
                 r  == ((t1 % 1000) + (t2 % 1000)) * 10000 + a0 * b0
             IN  Saturate(a1 * b1 * 10 + (t1 \div 1000) + (t2 \div 1000)
                          + (r + SCALE \div 2) \div SCALE)

Mul(a, b) ==
    IF a = NaN \/ b = NaN THEN NaN
    ELSE IF ~IsFinite(a) \/ ~IsFinite(b)
         THEN (IF a = 0 \/ b = 0 THEN NaN
               ELSE IF Sign(a) = Sign(b) THEN PInf ELSE NInf)
    ELSE IF Sign(a) = Sign(b) THEN MulMag(Mag(a), Mag(b))
         ELSE Neg(MulMag(Mag(a), Mag(b)))

\* |a| * SCALE / |b| for magnitudes below Limit, b > 0
DivMag(a, b) ==
    LET big == b > 2 * 10^8
        bb  == IF big THEN (b + 5) \div 10 ELSE b
        n   == IF big THEN 6 ELSE 7
        q   == a \div bb
    IN  IF q >= Limit \div (10^n) THEN PInf
        ELSE Saturate(q * (10^n) + DivDigits(a % bb, bb, n, 0))

Div(a, b) ==
    IF a = NaN \/ b = NaN THEN NaN
    ELSE IF ~IsFinite(a)
         THEN (IF ~IsFinite(b) THEN NaN
               ELSE IF Sign(a) = Sign(b) THEN PInf ELSE NInf)
    ELSE IF ~IsFinite(b) THEN 0
    ELSE IF b = 0
         THEN (IF a = 0 THEN NaN ELSE IF a > 0 THEN PInf ELSE NInf)
    ELSE IF Sign(a) = Sign(b) THEN DivMag(Mag(a), Mag(b))
         ELSE Neg(DivMag(Mag(a), Mag(b)))

\* JavaScript comparisons: every comparison with NaN is false
Lt(a, b) == a # NaN /\ b # NaN /\ a < b
Le(a, b) == a # NaN /\ b # NaN /\ a <= b
Gt(a, b) == a # NaN /\ b # NaN /\ a > b
Ge(a, b) == a # NaN /\ b # NaN /\ a >= b
\* a === b on Numbers
StrictEq(a, b) == a # NaN /\ b # NaN /\ a = b

\* truthiness of a Number or null: null, NaN and 0 are falsy
Truthy(x) == x # Null /\ x # NaN /\ x # 0

\* a minimum that does not cap: its first operand
FirstOperand(a, b) == a

MathMax(a, b) == IF a = NaN \/ b = NaN THEN NaN ELSE IF a >= b THEN a ELSE b
MathMin(a, b) == IF a = NaN \/ b = NaN THEN NaN ELSE IF a <= b THEN a ELSE b

\* the integer square root of n < 2^31, searched between lo and hi
RECURSIVE ISqrt(_, _, _)
ISqrt(n, lo, hi) ==
    IF hi - lo <= 1 THEN lo
    ELSE LET mid == (lo + hi) \div 2
         IN  IF mid * mid <= n THEN ISqrt(n, mid, hi) ELSE ISqrt(n, lo, mid)

SqrtNewton(x, y) == (y + Div(x, y)) \div 2

MathSqrt(x) ==
    IF x = NaN \/ x < 0 THEN NaN
    ELSE IF x = PInf THEN PInf
    ELSE IF x = 0 THEN 0
    ELSE LET g  == IF x >= 1000 THEN ISqrt(x \div 10, 0, 46341) * 10000
                   ELSE ISqrt(x * 1000, 0, 46341) * 100
             y0 == IF g = 0 THEN 1 ELSE g
         IN  SqrtNewton(x, SqrtNewton(x, SqrtNewton(x, SqrtNewton(x, y0))))

EulerE == Lit(27182818, 10^7)
EulerInv == Lit(3678794, 10^7)
Ln2 == Lit(6931472, 10^7)
MathPI == Lit(31415927, 10^7)

\* e^f for 0 <= f < 1: Taylor series in Horner form, terms k..1 still to add
RECURSIVE ExpFrac(_, _, _)
ExpFrac(f, k, acc) ==
    IF k = 0 \/ acc = NaN THEN acc
    ELSE ExpFrac(f, k - 1, Add(SCALE, Div(Mul(f, acc), Int2Num(k))))

RECURSIVE ExpPow(_, _)
ExpPow(r, n) ==
    IF n = 0 \/ r = 0 THEN r
    ELSE IF n > 0 THEN ExpPow(Mul(r, EulerE), n - 1)
    ELSE ExpPow(Mul(r, EulerInv), n + 1)

MathExp(x) ==
    IF x = NaN THEN NaN
    ELSE IF x = PInf THEN PInf
    ELSE IF x = NInf THEN 0
    ELSE IF x \div SCALE >= 6 THEN PInf
    ELSE IF x \div SCALE < 0 - 17 THEN 0
    ELSE Let(ExpFrac(x - (x \div SCALE) * SCALE, 12, SCALE),
             LAMBDA frac : ExpPow(frac, x \div SCALE))

\* x = m * 2^k with 1 <= m < 2
RECURSIVE LnReduce(_, _)
LnReduce(m, k) ==
    IF m >= 2 * SCALE THEN LnReduce((m + 1) \div 2, k + 1)
    ELSE IF m < SCALE THEN LnReduce(m * 2, k - 1)
    ELSE <<m, k>>

\* sum of z2^j / (2j+1), Horner form, terms j..0 still to add
RECURSIVE LnSeries(_, _, _)
LnSeries(z2, j, acc) ==
    IF j < 0 \/ acc = NaN THEN acc
    ELSE LnSeries(z2, j - 1, Add(Div(SCALE, Int2Num(2 * j + 1)), Mul(z2, acc)))

MathLog(x) ==
    IF x = NaN \/ x < 0 THEN NaN
    ELSE IF x = 0 THEN NInf
    ELSE IF x = PInf THEN PInf
    ELSE Let(LnReduce(x, 0), LAMBDA mk :
         Let(Div(mk[1] - SCALE, mk[1] + SCALE), LAMBDA z :
         Let(LnSeries(Mul(z, z), 8, 0), LAMBDA series :
             Add(mk[2] * Ln2, Mul(Int2Num(2), Mul(z, series))))))

(***************************************************************************)
(* BlackScholesCalculator                                                  *)
(***************************************************************************)
\* Date values are whole days; SECONDS_PER_YEAR * 1000 ms is 365.25 days,
\* written here as 3.6525 hundreds of days.
SECONDS_PER_YEAR == Lit(36525, 10^4)

\* Standard normal cumulative distribution function
normCDF(x0) ==
    LET a1 == Lit(254829592, 10^9)
        a2 == Neg(Lit(284496736, 10^9))
        a3 == Lit(1421413741, 10^9)
        a4 == Neg(Lit(1453152027, 10^9))
        a5 == Lit(1061405429, 10^9)
        p  == Lit(3275911, 10^7)
        sign == IF Lt(x0, 0) THEN Int2Num(0 - 1) ELSE Int2Num(1)
    IN  Let(Div(Abs(x0), MathSqrt(Int2Num(2))), LAMBDA x :
        Let(Div(Int2Num(1), Add(Int2Num(1), Mul(p, x))), LAMBDA t :
        Let(Mul(Add(Mul(Add(Mul(Add(Mul(Add(Mul(a5, t), a4), t), a3), t),
                            a2), t), a1), t), LAMBDA poly :
        Let(Sub(Int2Num(1), Mul(poly, MathExp(Mul(Neg(x), x)))), LAMBDA y :
            Mul(Lit(5, 10), Add(Int2Num(1), Mul(sign, y)))))))

\* Standard normal probability density function
normPDF(x) ==
    Mul(Div(Int2Num(1), MathSqrt(Mul(Int2Num(2), MathPI))),
        MathExp(Mul(Mul(Neg(Lit(5, 10)), x), x)))

\* Date.getTime() difference, in days; NaN when a Date is invalid
DateDiff(d1, d2) == IF d1 = NaN \/ d2 = NaN THEN NaN ELSE d1 - d2

\* a whole number of days as a fraction of the year
YearFraction(days) ==
    IF days = NaN THEN NaN
    ELSE IF days < 0 THEN Neg(Div(Lit(0 - days, 100), SECONDS_PER_YEAR))
    ELSE Div(Lit(days, 100), SECONDS_PER_YEAR)

\* Calculate time to expiration in years
timeToExpiration(expirationDate, currentDate) ==
    LET timeDiff == DateDiff(expirationDate, currentDate)
    IN  MathMax(YearFraction(timeDiff), 0)

adjustedSpotOf(spotPrice, dividendYield, timeToExpiry) ==
    Mul(spotPrice, MathExp(Mul(Neg(dividendYield), timeToExpiry)))

d1Of(adjustedSpot, strikePrice, timeToExpiry, riskFreeRate, volatility) ==
    Div(Add(MathLog(Div(adjustedSpot, strikePrice)),
            Mul(Add(riskFreeRate, Mul(Mul(Lit(5, 10), volatility), volatility)),
                timeToExpiry)),
        Mul(volatility, MathSqrt(timeToExpiry)))

\* blackScholesPrice returning the call's value at expiry for either type
blackScholesPriceTypeIgnored(spotPrice, strikePrice, timeToExpiry, riskFreeRate, volatility, optionType, dividendYield) ==
    MathMax(Sub(spotPrice, strikePrice), 0)

\* Black-Scholes option pricing formula
blackScholesPrice(spotPrice, strikePrice, timeToExpiry, riskFreeRate, volatility, optionType, dividendYield) ==
    IF Le(timeToExpiry, 0)
    THEN IF optionType = "call"
         THEN MathMax(Sub(spotPrice, strikePrice), 0)
         ELSE MathMax(Sub(strikePrice, spotPrice), 0)
    ELSE Let(adjustedSpotOf(spotPrice, dividendYield, timeToExpiry),
             LAMBDA adjustedSpot :
         Let(d1Of(adjustedSpot, strikePrice, timeToExpiry, riskFreeRate,
                  volatility), LAMBDA d1 :
         Let(Sub(d1, Mul(volatility, MathSqrt(timeToExpiry))), LAMBDA d2 :
             IF optionType = "call"
             THEN Sub(Mul(adjustedSpot, normCDF(d1)),
                      Mul(Mul(strikePrice,
                              MathExp(Mul(Neg(riskFreeRate), timeToExpiry))),
                          normCDF(d2)))
             ELSE Sub(Mul(Mul(strikePrice,
                              MathExp(Mul(Neg(riskFreeRate), timeToExpiry))),
                          normCDF(Neg(d2))),
                      Mul(adjustedSpot, normCDF(Neg(d1)))))))

\* Calculate option delta
calculateDelta(spotPrice, strikePrice, timeToExpiry, riskFreeRate, volatility, optionType, dividendYield) ==
    IF Le(timeToExpiry, 0)
    THEN IF optionType = "call"
         THEN (IF Gt(spotPrice, strikePrice) THEN Int2Num(1) ELSE 0)
         ELSE (IF Lt(spotPrice, strikePrice) THEN Int2Num(0 - 1) ELSE 0)
    ELSE Let(adjustedSpotOf(spotPrice, dividendYield, timeToExpiry),
             LAMBDA adjustedSpot :
         Let(d1Of(adjustedSpot, strikePrice, timeToExpiry, riskFreeRate,
                  volatility), LAMBDA d1 :
             IF optionType = "call"
             THEN Mul(MathExp(Mul(Neg(dividendYield), timeToExpiry)),
                      normCDF(d1))
             ELSE Mul(Neg(MathExp(Mul(Neg(dividendYield), timeToExpiry))),
                      normCDF(Neg(d1)))))

\* Calculate option gamma
calculateGamma(spotPrice, strikePrice, timeToExpiry, riskFreeRate, volatility, dividendYield) ==
    IF Le(timeToExpiry, 0) THEN 0
    ELSE Let(adjustedSpotOf(spotPrice, dividendYield, timeToExpiry),
             LAMBDA adjustedSpot :
         Let(d1Of(adjustedSpot, strikePrice, timeToExpiry, riskFreeRate,
                  volatility), LAMBDA d1 :
             Div(Mul(MathExp(Mul(Neg(dividendYield), timeToExpiry)),
                     normPDF(d1)),
                 Mul(Mul(spotPrice, volatility), MathSqrt(timeToExpiry)))))

\* Calculate option theta (time decay); the daily figure is the annual one
\* divided by 365.25
calculateTheta(spotPrice, strikePrice, timeToExpiry, riskFreeRate, volatility, optionType, dividendYield) ==
    IF Le(timeToExpiry, 0) THEN 0
    ELSE Let(adjustedSpotOf(spotPrice, dividendYield, timeToExpiry),
             LAMBDA adjustedSpot :
         Let(d1Of(adjustedSpot, strikePrice, timeToExpiry, riskFreeRate,
                  volatility), LAMBDA d1 :
         Let(Sub(d1, Mul(volatility, MathSqrt(timeToExpiry))), LAMBDA d2 :
         Let(Div(Mul(Mul(Neg(adjustedSpot), normPDF(d1)), volatility),
                 Mul(Int2Num(2), MathSqrt(timeToExpiry))), LAMBDA decay :
         Let(Mul(Mul(riskFreeRate, strikePrice),
                 MathExp(Mul(Neg(riskFreeRate), timeToExpiry))), LAMBDA carry :
         Let(IF optionType = "call"
             THEN Sub(Add(decay, Mul(Mul(dividendYield, adjustedSpot),
                                     normCDF(d1))),
                      Mul(carry, normCDF(d2)))
             ELSE Add(Sub(decay, Mul(Mul(dividendYield, adjustedSpot),
                                     normCDF(Neg(d1)))),
                      Mul(carry, normCDF(Neg(d2)))), LAMBDA theta :
             Div(Div(theta, Int2Num(100)), Lit(36525, 10^4))))))))

\* Calculate option vega
calculateVega(spotPrice, strikePrice, timeToExpiry, riskFreeRate, volatility, dividendYield) ==
    IF Le(timeToExpiry, 0) THEN 0
    ELSE Let(adjustedSpotOf(spotPrice, dividendYield, timeToExpiry),
             LAMBDA adjustedSpot :
         Let(d1Of(adjustedSpot, strikePrice, timeToExpiry, riskFreeRate,
                  volatility), LAMBDA d1 :
             Div(Mul(Mul(adjustedSpot, normPDF(d1)), MathSqrt(timeToExpiry)),
                 Int2Num(100))))

\* Calculate option rho
calculateRho(spotPrice, strikePrice, timeToExpiry, riskFreeRate, volatility, optionType, dividendYield) ==
    IF Le(timeToExpiry, 0) THEN 0
    ELSE Let(adjustedSpotOf(spotPrice, dividendYield, timeToExpiry),
             LAMBDA adjustedSpot :
         Let(d1Of(adjustedSpot, strikePrice, timeToExpiry, riskFreeRate,
                  volatility), LAMBDA d1 :
         Let(Sub(d1, Mul(volatility, MathSqrt(timeToExpiry))), LAMBDA d2 :
         Let(IF optionType = "call"
             THEN Mul(Mul(Mul(strikePrice, timeToExpiry),
                          MathExp(Mul(Neg(riskFreeRate), timeToExpiry))),
                      normCDF(d2))
             ELSE Mul(Mul(Mul(Neg(strikePrice), timeToExpiry),
                          MathExp(Mul(Neg(riskFreeRate), timeToExpiry))),
                      normCDF(Neg(d2))), LAMBDA rho :
             Div(rho, Int2Num(100))))))

\* default arguments of calculateImpliedVolatility
\* a tolerance of a whole dollar
looseTolerance == Int2Num(1)

maxIterations == 100
tolerance == Lit(1, 10^6)

\* The solver's loop state: the iterate, the number of loop bodies entered,
\* whether the function has returned, and what it returned.
IVStart ==
    [volatility |-> Lit(3, 10), i |-> 0, done |-> FALSE, result |-> Null]

\* One pass through the body of the Newton-Raphson loop
IVStep(st, optionPrice, spotPrice, strikePrice, timeToExpiry, riskFreeRate, optionType, dividendYield) ==
    Let(blackScholesPrice(spotPrice, strikePrice, timeToExpiry, riskFreeRate,
                          st.volatility, optionType, dividendYield),
        LAMBDA price :
    Let(Mul(calculateVega(spotPrice, strikePrice, timeToExpiry, riskFreeRate,
                          st.volatility, dividendYield), Int2Num(100)),
        LAMBDA vega :
    Let(Sub(price, optionPrice), LAMBDA priceDiff :
        IF Lt(Abs(priceDiff), tolerance)
        THEN [volatility |-> st.volatility, i |-> st.i + 1, done |-> TRUE,
              result |-> st.volatility]
        ELSE IF StrictEq(vega, 0)
        THEN [volatility |-> st.volatility, i |-> st.i + 1, done |-> TRUE,
              result |-> Null]
        ELSE [volatility |->
                  MathMax(Lit(1, 1000),
                          MathMin(Sub(st.volatility, Div(priceDiff, vega)),
                                  Int2Num(5))),
              i |-> st.i + 1, done |-> (st.i + 1 >= maxIterations),
              result |-> Null])))

\* n passes through the loop body, stopping at a return
RECURSIVE IVLoop(_, _, _, _, _, _, _, _, _)
IVLoop(st, n, optionPrice, spotPrice, strikePrice, timeToExpiry, riskFreeRate, optionType, dividendYield) ==
    IF st.done \/ n = 0 THEN st
    ELSE IF n = 1
    THEN IVStep(st, optionPrice, spotPrice, strikePrice, timeToExpiry,
                riskFreeRate, optionType, dividendYield)
    ELSE Let(IVLoop(st, n \div 2, optionPrice, spotPrice, strikePrice,
                    timeToExpiry, riskFreeRate, optionType, dividendYield),
             LAMBDA half :
                 IVLoop(half, n - n \div 2, optionPrice, spotPrice,
                        strikePrice, timeToExpiry, riskFreeRate, optionType,
                        dividendYield))

\* Calculate implied volatility using Newton-Raphson method; Null when the
\* function returns null
calculateImpliedVolatility(optionPrice, spotPrice, strikePrice, timeToExpiry, riskFreeRate, optionType, dividendYield) ==
    IF Le(timeToExpiry, 0) THEN Null
    ELSE IVLoop(IVStart, maxIterations, optionPrice, spotPrice, strikePrice,
                timeToExpiry, riskFreeRate, optionType, dividendYield).result

\* The object analyzeOption returns for the volatility it resolved.
\* ivInvoked records whether calculateImpliedVolatility was called; it is
\* not a field of the returned object.
analysisOutputs(contract, marketData, timeToExpiry, volatility, ivInvoked) ==
    [theoreticalPrice |->
         blackScholesPrice(marketData.underlyingPrice, contract.strikePrice,
                           timeToExpiry, marketData.riskFreeRate, volatility,
                           contract.optionType, marketData.dividendYield),
     delta |->
         calculateDelta(marketData.underlyingPrice, contract.strikePrice,
                        timeToExpiry, marketData.riskFreeRate, volatility,
                        contract.optionType, marketData.dividendYield),
     gamma |->
         calculateGamma(marketData.underlyingPrice, contract.strikePrice,
                        timeToExpiry, marketData.riskFreeRate, volatility,
                        marketData.dividendYield),
     theta |->
         calculateTheta(marketData.underlyingPrice, contract.strikePrice,
                        timeToExpiry, marketData.riskFreeRate, volatility,
                        contract.optionType, marketData.dividendYield),
     vega |->
         calculateVega(marketData.underlyingPrice, contract.strikePrice,
                       timeToExpiry, marketData.riskFreeRate, volatility,
                       marketData.dividendYield),
     rho |->
         calculateRho(marketData.underlyingPrice, contract.strikePrice,
                      timeToExpiry, marketData.riskFreeRate, volatility,
                      contract.optionType, marketData.dividendYield),
     impliedVolatility |-> volatility,
     timeToExpiry |-> timeToExpiry,
     ivInvoked |-> ivInvoked]

\* analyzeOption with the estimate consulted only after the solver
analyzeOptionEstimateIgnored(contract, marketData, volatilityEstimate) ==
    Let(timeToExpiration(contract.expirationDate, marketData.timestamp),
        LAMBDA timeToExpiry :
    Let(Truthy(contract.currentPrice), LAMBDA solve :
    Let(IF solve
        THEN calculateImpliedVolatility(
                 contract.currentPrice, marketData.underlyingPrice,
                 contract.strikePrice, timeToExpiry, marketData.riskFreeRate,
                 contract.optionType, marketData.dividendYield)
        ELSE volatilityEstimate, LAMBDA solved :
    Let(IF Truthy(solved) THEN solved ELSE Lit(3, 10), LAMBDA volatility :
        analysisOutputs(contract, marketData, timeToExpiry, volatility,
                        solve)))))

\* Complete analysis
analyzeOption(contract, marketData, volatilityEstimate) ==
    Let(timeToExpiration(contract.expirationDate, marketData.timestamp),
        LAMBDA timeToExpiry :
    Let(~Truthy(volatilityEstimate) /\ Truthy(contract.currentPrice),
        LAMBDA solve :
    Let(IF solve
        THEN calculateImpliedVolatility(
                 contract.currentPrice, marketData.underlyingPrice,
                 contract.strikePrice, timeToExpiry, marketData.riskFreeRate,
                 contract.optionType, marketData.dividendYield)
        ELSE volatilityEstimate, LAMBDA solved :
    Let(IF Truthy(solved) THEN solved ELSE Lit(3, 10), LAMBDA volatility :
        analysisOutputs(contract, marketData, timeToExpiry, volatility,
                        solve)))))

\* generateTradingSignal with the expiry check made before the market-price
\* check
generateTradingSignalExpiryFirst(contract, marketData, result, edgeThreshold) ==
    LET fairValue == result.theoreticalPrice
        marketPrice == contract.currentPrice
        edge == IF marketPrice # Null /\ Gt(marketPrice, 0)
                THEN Div(Sub(fairValue, marketPrice), marketPrice)
                ELSE 0
        confidence == MathMin(Div(Abs(edge), edgeThreshold), Int2Num(1))
        action == IF Gt(edge, edgeThreshold) THEN "BUY"
                  ELSE IF Lt(edge, Neg(edgeThreshold)) THEN "SELL"
                  ELSE "HOLD"
    IN  IF Lt(result.timeToExpiry, Lit(2, 100))
        THEN [action |-> "AVOID", confidence |-> Lit(8, 10),
              reasoning |-> "expires-too-soon", fairValue |-> fairValue,
              marketPrice |-> IF Truthy(marketPrice) THEN marketPrice ELSE 0,
              edge |-> edge]
        ELSE IF ~Truthy(contract.currentPrice)
        THEN [action |-> "HOLD", confidence |-> 0,
              reasoning |-> "no-market-price",
              fairValue |-> result.theoreticalPrice, marketPrice |-> 0,
              edge |-> 0]
        ELSE [action |-> action,
              confidence |-> IF action = "HOLD"
                             THEN Sub(Int2Num(1), confidence)
                             ELSE confidence,
              reasoning |-> "edge",
              fairValue |-> fairValue, marketPrice |-> marketPrice,
              edge |-> edge]

\* generateTradingSignal with the threshold tests made inclusive
generateTradingSignalInclusive(contract, marketData, result, edgeThreshold) ==
    IF ~Truthy(contract.currentPrice)
    THEN [action |-> "HOLD", confidence |-> 0, reasoning |-> "no-market-price",
          fairValue |-> result.theoreticalPrice, marketPrice |-> 0, edge |-> 0]
    ELSE LET fairValue == result.theoreticalPrice
             marketPrice == contract.currentPrice
             edge == IF Gt(marketPrice, 0)
                     THEN Div(Sub(fairValue, marketPrice), marketPrice)
                     ELSE 0
             confidence == MathMin(Div(Abs(edge), edgeThreshold), Int2Num(1))
             action == IF Ge(edge, edgeThreshold) THEN "BUY"
                       ELSE IF Le(edge, Neg(edgeThreshold)) THEN "SELL"
                       ELSE "HOLD"
         IN  IF Lt(result.timeToExpiry, Lit(2, 100))
             THEN [action |-> "AVOID", confidence |-> Lit(8, 10),
                   reasoning |-> "expires-too-soon", fairValue |-> fairValue,
                   marketPrice |-> marketPrice, edge |-> edge]
             ELSE [action |-> action,
                   confidence |-> IF action = "HOLD"
                                  THEN Sub(Int2Num(1), confidence)
                                  ELSE confidence,
                   reasoning |-> "edge",
                   fairValue |-> fairValue, marketPrice |-> marketPrice,
                   edge |-> edge]

\* Generate trading signal.  reasoning keeps which of the three texts was
\* built, not its wording.
generateTradingSignal(contract, marketData, result, edgeThreshold) ==
    IF ~Truthy(contract.currentPrice)
    THEN [action |-> "HOLD", confidence |-> 0, reasoning |-> "no-market-price",
          fairValue |-> result.theoreticalPrice, marketPrice |-> 0, edge |-> 0]
    ELSE LET fairValue == result.theoreticalPrice
             marketPrice == contract.currentPrice
             edge == IF Gt(marketPrice, 0)
                     THEN Div(Sub(fairValue, marketPrice), marketPrice)
                     ELSE 0
             minTimeToExpiry == Lit(2, 100)
             confidence == MathMin(Div(Abs(edge), edgeThreshold), Int2Num(1))
             action == IF Gt(edge, edgeThreshold) THEN "BUY"
                       ELSE IF Lt(edge, Neg(edgeThreshold)) THEN "SELL"
                       ELSE "HOLD"
         IN  IF Lt(result.timeToExpiry, minTimeToExpiry)
             THEN [action |-> "AVOID", confidence |-> Lit(8, 10),
                   reasoning |-> "expires-too-soon", fairValue |-> fairValue,
                   marketPrice |-> marketPrice, edge |-> edge]
             ELSE [action |-> action,
                   confidence |-> IF action = "HOLD"
                                  THEN Sub(Int2Num(1), confidence)
                                  ELSE confidence,
                   reasoning |-> "edge",
                   fairValue |-> fairValue, marketPrice |-> marketPrice,
                   edge |-> edge]

(***************************************************************************)
(* OptionsAnalyzerUI                                                       *)
(***************************************************************************)
\* An empty form field, and the text of an element nothing was written to.
\* A filled field holds the number its text spells (rates and the
\* volatility in percent, the expiry as a day number).
Blank == Limit + 4

\* parseFloat of a field's text: NaN for the empty string
parseFloat(field) == IF field = Blank THEN NaN ELSE field

\* parseInt of a field's text: the digits before the decimal point
parseInt(field) ==
    IF field = Blank THEN NaN
    ELSE Sign(field) * (Mag(field) \div SCALE) * SCALE

\* new Date(text).getTime(): NaN for the Invalid Date an empty string gives
NewDate(field) == IF field = Blank THEN NaN ELSE field

\* x rounded to a multiple of unit, as Number.toFixed and toLocaleString
\* round to a number of decimals; NaN and the infinities are kept
RoundTo(x, unit) ==
    IF ~IsFinite(x) THEN x
    ELSE Sign(x) * ((Mag(x) + unit \div 2) \div unit) * unit

\* the number x.toFixed(digits) spells
toFixed(x, digits) == RoundTo(x, 10^(7 - digits))

\* the number (x * 100).toFixed(digits) spells, kept as the fraction x
percentToFixed(x, digits) == toFixed(x, digits + 2)

\* Dollar amounts of a position and percentages of it are held in
\* thousandths, so that a position of many contracts stays in range.
\* positionSize * price * 100 (100 shares per contract)
positionValue(positionSize, price) ==
    IF positionSize = NaN \/ price = NaN THEN NaN
    ELSE IF price = PInf \/ price = NInf
    THEN (IF positionSize = 0 THEN NaN
          ELSE IF (positionSize > 0) = (price > 0) THEN PInf ELSE NInf)
    ELSE LET n == Mag(positionSize) \div SCALE
             whole == Mag(price) \div 100
             part == Mag(price) % 100
             sign == Sign(positionSize) * Sign(price)
         IN  IF n > 0 /\ whole >= Limit \div n
             THEN (IF sign > 0 THEN PInf ELSE NInf)
             ELSE sign * (n * whole + (n * part + 50) \div 100)

\* (pnl / totalInvestment) * 100
percentOf(pnl, totalInvestment) ==
    IF pnl = NaN \/ totalInvestment = NaN THEN NaN
    ELSE IF ~IsFinite(pnl)
    THEN (IF ~IsFinite(totalInvestment) THEN NaN
          ELSE IF (pnl > 0) = (totalInvestment >= 0) THEN PInf ELSE NInf)
    ELSE IF ~IsFinite(totalInvestment) THEN 0
    ELSE IF totalInvestment = 0
    THEN (IF pnl = 0 THEN NaN ELSE IF pnl > 0 THEN PInf ELSE NInf)
    ELSE LET big == Mag(totalInvestment) >= 2 * 10^8
             a == IF big THEN Mag(pnl) \div 10 ELSE Mag(pnl)
             b == IF big THEN Mag(totalInvestment) \div 10
                  ELSE Mag(totalInvestment)
             sign == Sign(pnl) * Sign(totalInvestment)
         IN  IF a \div b >= Limit \div 10^5
             THEN (IF sign > 0 THEN PInf ELSE NInf)
             ELSE sign * DivDigits(a % b, b, 5, a \div b)

\* the elements that carry the class "hidden"
Panels == {"loadingIndicator", "error", "results", "tradingCard", "pnlCard"}

\* the elements whose text is a number
NumberFields ==
    {"fairValue", "impliedVol", "delta", "gamma", "theta", "vega", "rho",
     "confidence", "edge", "marketPrice", "displayPositionSize",
     "totalInvestment"}

\* the elements whose text is a word or a message
WordFields == {"action", "reasoning", "errorMessage"}

\* a PnL target row nothing was written to; priced records the arguments
\* of the blackScholesPrice call that valued the row
EmptyRow ==
    [display |-> "", targetPrice |-> Blank, pnl |-> Blank, pnlClass |-> "",
     optionValue |-> Blank, pnlPercent |-> Blank, pnlPercentClass |-> "",
     priced |-> <<>>]

\* The page as loaded: every panel hidden, nothing written.
InitialDocument ==
    [hidden |-> [e \in Panels |-> TRUE],
     textContent |-> [e \in NumberFields \cup WordFields |->
                          IF e \in NumberFields THEN Blank ELSE ""],
     className |-> [action |-> ""],
     pnlTarget |-> [i \in 1..3 |-> EmptyRow]]

showLoading(doc) == [doc EXCEPT !.hidden["loadingIndicator"] = FALSE]
hideLoading(doc) == [doc EXCEPT !.hidden["loadingIndicator"] = TRUE]
showResults(doc) == [doc EXCEPT !.hidden["results"] = FALSE]
showError(doc, message) ==
    [doc EXCEPT !.textContent["errorMessage"] = message,
                !.hidden["error"] = FALSE]
hideError(doc) == [doc EXCEPT !.hidden["error"] = TRUE]

\* getFormData.  error is the message of the Error thrown, "" when the
\* function returns; now1 and now2 are the two readings of the clock.
getFormData(form, now1, now2) ==
    LET symbol == form.symbol
        strikePrice == parseFloat(form.strike)
        expirationDate == NewDate(form.expiry)
        optionType == form.optionType
        currentPrice == IF form.currentPrice # Blank
                        THEN parseFloat(form.currentPrice) ELSE Null
        underlyingPrice == parseFloat(form.underlyingPrice)
        riskFreeRate == Div(parseFloat(form.riskFreeRate), Int2Num(100))
        dividendYield == Div(parseFloat(form.dividendYield), Int2Num(100))
        volatilityEstimate ==
            IF form.volatility # Blank
            THEN Div(parseFloat(form.volatility), Int2Num(100)) ELSE Null
        edgeThreshold == Div(parseFloat(form.edgeThreshold), Int2Num(100))
        positionSize == IF form.positionSize # Blank
                        THEN parseInt(form.positionSize) ELSE Null
        priceTarget1 == IF form.priceTarget1 # Blank
                        THEN parseFloat(form.priceTarget1) ELSE Null
        priceTarget2 == IF form.priceTarget2 # Blank
                        THEN parseFloat(form.priceTarget2) ELSE Null
        priceTarget3 == IF form.priceTarget3 # Blank
                        THEN parseFloat(form.priceTarget3) ELSE Null
        \* !expirationDate is false for every Date object, valid or not
        invalid == \/ symbol = ""
                   \/ IsNaN(strikePrice)
                   \/ FALSE
                   \/ optionType = ""
                   \/ IsNaN(underlyingPrice)
                   \/ IsNaN(riskFreeRate)
    IN  [error |->
             IF invalid
             THEN "Please fill in all required fields with valid values"
             ELSE IF Le(expirationDate, now1)
             THEN "Expiration date must be in the future"
             ELSE "",
         contract |-> [underlyingSymbol |-> symbol,
                       strikePrice |-> strikePrice,
                       expirationDate |-> expirationDate,
                       optionType |-> optionType,
                       currentPrice |-> currentPrice],
         marketData |-> [underlyingPrice |-> underlyingPrice,
                         riskFreeRate |-> riskFreeRate,
                         dividendYield |-> dividendYield,
                         timestamp |-> now2],
         volatilityEstimate |-> volatilityEstimate,
         edgeThreshold |-> edgeThreshold,
         pnlData |-> [positionSize |-> positionSize,
                      priceTargets |->
                          SelectSeq(<<priceTarget1, priceTarget2, priceTarget3>>,
                                    LAMBDA target : target # Null)]]

\* the arguments of one blackScholesPrice call
PricingCall(spotPrice, strikePrice, timeToExpiry, riskFreeRate, volatility, optionType, dividendYield) ==
    [spotPrice |-> spotPrice, strikePrice |-> strikePrice,
     timeToExpiry |-> timeToExpiry, riskFreeRate |-> riskFreeRate,
     volatility |-> volatility, optionType |-> optionType,
     dividendYield |-> dividendYield]

\* the row calculateAndDisplayTargetPnL writes after the pricing call
WrittenRow(call, targetPrice, positionSize, totalInvestment) ==
    Let(blackScholesPrice(call.spotPrice, call.strikePrice, call.timeToExpiry,
                          call.riskFreeRate, call.volatility, call.optionType,
                          call.dividendYield), LAMBDA targetOptionValue :
    Let(positionValue(positionSize, targetOptionValue),
        LAMBDA totalTargetValue :
    Let(Sub(totalTargetValue, totalInvestment), LAMBDA pnl :
    Let(percentOf(pnl, totalInvestment), LAMBDA pnlPercent :
        [display |-> "block",
         targetPrice |-> toFixed(targetPrice, 2),
         pnl |-> RoundTo(pnl, 10),
         pnlClass |-> IF Ge(pnl, 0) THEN "positive" ELSE "negative",
         optionValue |-> toFixed(targetOptionValue, 2),
         pnlPercent |-> RoundTo(pnlPercent, 100),
         pnlPercentClass |-> IF Ge(pnlPercent, 0) THEN "positive"
                             ELSE "negative",
         priced |-> <<call>>]))))

\* calculateAndDisplayTargetPnL revaluing at the default volatility
calculateAndDisplayTargetPnLDefaultVolatility(row, targetPrice, result, currentOptionPrice, positionSize, totalInvestment, targetNumber) ==
    WrittenRow(PricingCall(targetPrice, result.originalContract.strikePrice,
                           result.timeToExpiry,
                           result.originalMarketData.riskFreeRate,
                           Lit(3, 10),
                           result.originalContract.optionType,
                           result.originalMarketData.dividendYield),
               targetPrice, positionSize, totalInvestment)

\* calculateAndDisplayTargetPnL: the row it leaves in targetElement
calculateAndDisplayTargetPnL(row, targetPrice, result, currentOptionPrice, positionSize, totalInvestment, targetNumber) ==
    WrittenRow(PricingCall(targetPrice, result.originalContract.strikePrice,
                           result.timeToExpiry,
                           result.originalMarketData.riskFreeRate,
                           result.impliedVolatility,
                           result.originalContract.optionType,
                           result.originalMarketData.dividendYield),
               targetPrice, positionSize, totalInvestment)

\* the i-th target row after displayPnLAnalysis
TargetRow(doc, result, pnlData, currentOptionPrice, totalInvestment, i) ==
    IF i <= Len(pnlData.priceTargets)
    THEN (IF Truthy(pnlData.priceTargets[i])
          THEN calculateAndDisplayTargetPnL(
                   doc.pnlTarget[i], pnlData.priceTargets[i], result,
                   currentOptionPrice, pnlData.positionSize, totalInvestment, i)
          ELSE doc.pnlTarget[i])
    ELSE [doc.pnlTarget[i] EXCEPT !.display = "none"]

displayPnLAnalysis(doc, result, signal, pnlData) ==
    IF ~Truthy(pnlData.positionSize) \/ Len(pnlData.priceTargets) = 0
    THEN [doc EXCEPT !.hidden["pnlCard"] = TRUE]
    ELSE Let(IF Truthy(signal.marketPrice) THEN signal.marketPrice
             ELSE result.theoreticalPrice, LAMBDA currentOptionPrice :
         Let(positionValue(pnlData.positionSize, currentOptionPrice),
             LAMBDA totalInvestment :
             [doc EXCEPT
                  !.hidden["pnlCard"] = FALSE,
                  !.textContent["displayPositionSize"] = pnlData.positionSize,
                  !.textContent["totalInvestment"] =
                      RoundTo(totalInvestment, 10),
                  !.pnlTarget =
                      [i \in 1..3 |->
                          TargetRow(doc, result, pnlData, currentOptionPrice,
                                    totalInvestment, i)]]))

\* the page after the pricing and Greeks fields are written
PricingShown(doc, result) ==
    [doc EXCEPT
         !.textContent["fairValue"] = toFixed(result.theoreticalPrice, 2),
         !.textContent["impliedVol"] =
             percentToFixed(result.impliedVolatility, 1),
         !.textContent["delta"] = toFixed(result.delta, 4),
         !.textContent["gamma"] = toFixed(result.gamma, 4),
         !.textContent["theta"] = toFixed(result.theta, 2),
         !.textContent["vega"] = toFixed(result.vega, 2),
         !.textContent["rho"] = toFixed(result.rho, 2)]

\* the page after the trading recommendation card is updated
TradingShown(doc, signal) ==
    IF Gt(signal.marketPrice, 0)
    THEN [doc EXCEPT
              !.hidden["tradingCard"] = FALSE,
              !.textContent["action"] = signal.action,
              !.className["action"] = signal.action,
              !.textContent["confidence"] =
                  percentToFixed(signal.confidence, 1),
              !.textContent["edge"] = percentToFixed(signal.edge, 1),
              !.textContent["marketPrice"] = toFixed(signal.marketPrice, 2),
              !.textContent["reasoning"] = signal.reasoning]
    ELSE [doc EXCEPT !.hidden["tradingCard"] = TRUE]

displayResults(doc, result, signal, pnlData) ==
    showResults(displayPnLAnalysis(TradingShown(PricingShown(doc, result),
                                                signal),
                                   result, signal, pnlData))

\* what the record of a submission holds when no analysis was made
NoResult ==
    [theoreticalPrice |-> Null, delta |-> Null, gamma |-> Null,
     theta |-> Null, vega |-> Null, rho |-> Null, impliedVolatility |-> Null,
     timeToExpiry |-> Null, ivInvoked |-> FALSE]
NoSignal ==
    [action |-> "", confidence |-> Null, reasoning |-> "", fairValue |-> Null,
     marketPrice |-> Null, edge |-> Null]

\* handleFormSubmit: the page it leaves, and a record of the submission
\* (what was submitted, the message of the Error caught, whether
\* analyzeOption ran, and what it and generateTradingSignal returned).
handleFormSubmit(doc, form, now1, now2) ==
    Let(hideError(showLoading(doc)), LAMBDA loading :
    Let(getFormData(form, now1, now2), LAMBDA formData :
        IF formData.error # ""
        THEN [document |-> hideLoading(showError(loading, formData.error)),
              call |-> [form |-> form, formData |-> formData,
                        error |-> formData.error, analyzed |-> FALSE,
                        result |-> NoResult, signal |-> NoSignal]]
        ELSE Let(analyzeOption(formData.contract, formData.marketData,
                               formData.volatilityEstimate), LAMBDA analysis :
             Let(generateTradingSignal(formData.contract, formData.marketData,
                                       analysis, formData.edgeThreshold),
                 LAMBDA signal :
             Let(analysis @@ [originalContract |-> formData.contract,
                              originalMarketData |-> formData.marketData],
                 LAMBDA result :
                 [document |->
                      hideLoading(displayResults(loading, result, signal,
                                                 formData.pnlData)),
                  call |-> [form |-> form, formData |-> formData,
                            error |-> "", analyzed |-> TRUE,
                            result |-> analysis, signal |-> signal]])))))

(***************************************************************************)
(* The page as a state machine                                             *)
(***************************************************************************)
VARIABLES
    clock,      \* the day new Date() reads
    submits,    \* the number of submit events handled
    document,   \* the page
    last,       \* the record of the latest handleFormSubmit
    signalCall, \* a generateTradingSignal call on its own
    expiryCall, \* the pricing functions called at or after expiry
    solver      \* a calculateImpliedVolatility call, loop pass by loop pass

vars == <<clock, submits, document, last, signalCall, expiryCall, solver>>

MaxClock == 1
MaxSubmits == 1

\* the value of a variable that a specification does not use
Idle == [phase |-> "idle"]

BaseForm ==
    [symbol |-> "aapl", strike |-> Int2Num(10), expiry |-> 30,
     optionType |-> "call", currentPrice |-> Blank,
     underlyingPrice |-> Int2Num(10), riskFreeRate |-> Int2Num(5),
     dividendYield |-> 0, volatility |-> Blank,
     edgeThreshold |-> Int2Num(10), positionSize |-> Blank,
     priceTarget1 |-> Blank, priceTarget2 |-> Blank, priceTarget3 |-> Blank]

\* calls and puts, in and at the money, with and without a market price
\* and a volatility estimate
PricingForms ==
    {[BaseForm EXCEPT !.optionType = ty, !.strike = k, !.currentPrice = cp,
                      !.volatility = v] :
        ty \in {"call", "put"}, k \in {Int2Num(8), Int2Num(10)},
        cp \in {Blank, 0, Lit(5, 10)}, v \in {Blank, 0, Int2Num(20)}}

\* edge thresholds of zero, below zero and left empty
ThresholdForms ==
    {[BaseForm EXCEPT !.currentPrice = cp, !.volatility = Int2Num(20),
                      !.edgeThreshold = thr] :
        cp \in {Lit(5, 10), Lit(2, 10), Neg(Lit(5, 10))},
        thr \in {0, Neg(Int2Num(10)), Blank}}

\* expiry left empty, today, tomorrow, within a week and months away
ExpiryForms ==
    {[BaseForm EXCEPT !.currentPrice = cp, !.volatility = Int2Num(20),
                      !.expiry = e] :
        cp \in {Blank, 0, Lit(5, 10)}, e \in {Blank, 0, 1, 7, 120}}

\* required fields left empty, and strikes and spots of zero and below
RequiredForms ==
    {[BaseForm EXCEPT !.strike = k, !.currentPrice = Lit(5, 10)] :
        k \in {Blank, 0, Neg(Int2Num(10))}}
    \cup {[BaseForm EXCEPT !.underlyingPrice = u, !.volatility = Int2Num(20)] :
             u \in {Blank, 0, Neg(Int2Num(10))}}
    \cup {[BaseForm EXCEPT !.symbol = ""], [BaseForm EXCEPT !.optionType = ""],
          [BaseForm EXCEPT !.riskFreeRate = Blank],
          [BaseForm EXCEPT !.dividendYield = Blank,
                           !.currentPrice = Lit(5, 10)]}

TargetLists ==
    {<<Int2Num(11), Blank, Blank>>, <<Blank, Int2Num(11), Blank>>,
     <<Int2Num(9), 0, Int2Num(12)>>, <<Blank, Blank, Blank>>}

\* positions with one to three price targets
PositionForms ==
    {[BaseForm EXCEPT !.currentPrice = cp, !.volatility = v,
                      !.positionSize = Int2Num(2), !.priceTarget1 = t[1],
                      !.priceTarget2 = t[2], !.priceTarget3 = t[3]] :
        cp \in {Blank, Lit(5, 10)}, v \in {Blank, Int2Num(20)},
        t \in TargetLists}
    \cup {[BaseForm EXCEPT !.currentPrice = cp, !.volatility = Int2Num(20),
                           !.positionSize = n,
                           !.priceTarget1 = Int2Num(11)] :
             cp \in {Lit(5, 10), Neg(Lit(5, 10))},
             n \in {0, Lit(25, 10), Neg(Int2Num(1))}}

\* market prices for the solver to match, a week and a month from expiry,
\* with small edge thresholds
SolvedForms ==
    {[BaseForm EXCEPT !.optionType = "put", !.currentPrice = cp,
                      !.expiry = e, !.edgeThreshold = Lit(1, 10)] :
        cp \in {Lit(1, 100), Lit(5, 10)}, e \in {7, 30}}

Forms ==
    PricingForms \cup ThresholdForms \cup ExpiryForms \cup RequiredForms
    \cup PositionForms \cup SolvedForms

Init ==
    /\ clock = 0
    /\ submits = 0
    /\ document = InitialDocument
    /\ last = [form |-> BaseForm, formData |-> getFormData(BaseForm, 0, 0),
               error |-> "", analyzed |-> FALSE, result |-> NoResult,
               signal |-> NoSignal]
    /\ signalCall = Idle
    /\ expiryCall = Idle
    /\ solver = Idle

\* A submit event.  The clock is read twice (for the expiry check and for
\* the timestamp) and may have moved on in between.
HandleFormSubmit(form, elapsed) ==
    /\ submits < MaxSubmits
    /\ clock + elapsed <= MaxClock
    /\ LET handled == handleFormSubmit(document, form, clock, clock + elapsed)
       IN  /\ document' = handled.document
           /\ last' = handled.call
    /\ clock' = clock + elapsed
    /\ submits' = submits + 1
    /\ UNCHANGED <<signalCall, expiryCall, solver>>

\* A day passes.
Tick ==
    /\ clock < MaxClock
    /\ clock' = clock + 1
    /\ UNCHANGED <<submits, document, last, signalCall, expiryCall, solver>>

Next ==
    \/ \E form \in Forms, elapsed \in {0, 1} : HandleFormSubmit(form, elapsed)
    \/ Tick

Spec == Init /\ [][Next]_vars

(***************************************************************************)
(* generateTradingSignal on its own                                        *)
(***************************************************************************)
SignalPrices == {Null, 0, Neg(Int2Num(1)), Lit(5, 10), Int2Num(1)}
SignalFairValues ==
    {0, Lit(5, 10), Lit(9, 10), Int2Num(1), Lit(11, 10), Lit(15, 10), NaN}
SignalTimes ==
    {0, timeToExpiration(7, 0), Lit(2, 100), timeToExpiration(30, 0), NaN}
SignalThresholds == {Lit(1, 10), Lit(5, 100), 0, Neg(Lit(1, 10)), NaN}

SignalInit ==
    /\ signalCall \in
           [phase : {"called"},
            contract : [currentPrice : SignalPrices],
            result : [theoreticalPrice : SignalFairValues,
                      timeToExpiry : SignalTimes],
            edgeThreshold : SignalThresholds,
            signal : {NoSignal}]
    /\ clock = 0
    /\ submits = 0
    /\ document = InitialDocument
    /\ last = Idle
    /\ expiryCall = Idle
    /\ solver = Idle

SignalReturn ==
    /\ signalCall.phase = "called"
    /\ signalCall' =
           [signalCall EXCEPT
                !.phase = "returned",
                !.signal = generateTradingSignal(signalCall.contract, Idle,
                                                 signalCall.result,
                                                 signalCall.edgeThreshold)]
    /\ UNCHANGED <<clock, submits, document, last, expiryCall, solver>>

SpecSignal == SignalInit /\ [][SignalReturn]_vars

(***************************************************************************)
(* The pricing functions at and after expiry                               *)
(***************************************************************************)
ExpirySpots == {0, Int2Num(8), Int2Num(10), Int2Num(12)}
ExpiryStrikes == {Neg(Int2Num(10)), Int2Num(8), Int2Num(10), Int2Num(12)}
ExpiryTimes == {0, Neg(timeToExpiration(30, 0))}
ExpiryRates == {Lit(5, 100), Neg(Lit(1, 100))}
ExpiryVolatilities == {0, Lit(3, 10)}
ExpiryYields == {0, Lit(2, 100)}

NoGreeks ==
    [price |-> Null, delta |-> Null, gamma |-> Null, theta |-> Null,
     vega |-> Null, rho |-> Null]

ExpiryInit ==
    /\ expiryCall \in
           [phase : {"called"}, spotPrice : ExpirySpots,
            strikePrice : ExpiryStrikes, timeToExpiry : ExpiryTimes,
            riskFreeRate : ExpiryRates, volatility : ExpiryVolatilities,
            optionType : {"call", "put"}, dividendYield : ExpiryYields,
            returned : {NoGreeks}]
    /\ clock = 0
    /\ submits = 0
    /\ document = InitialDocument
    /\ last = Idle
    /\ signalCall = Idle
    /\ solver = Idle

ExpiryReturn ==
    /\ expiryCall.phase = "called"
    /\ LET c == expiryCall
       IN  expiryCall' =
               [c EXCEPT
                    !.phase = "returned",
                    !.returned =
                        [price |-> blackScholesPrice(
                             c.spotPrice, c.strikePrice, c.timeToExpiry,
                             c.riskFreeRate, c.volatility, c.optionType,
                             c.dividendYield),
                         delta |-> calculateDelta(
                             c.spotPrice, c.strikePrice, c.timeToExpiry,
                             c.riskFreeRate, c.volatility, c.optionType,
                             c.dividendYield),
                         gamma |-> calculateGamma(
                             c.spotPrice, c.strikePrice, c.timeToExpiry,
                             c.riskFreeRate, c.volatility, c.dividendYield),
                         theta |-> calculateTheta(
                             c.spotPrice, c.strikePrice, c.timeToExpiry,
                             c.riskFreeRate, c.volatility, c.optionType,
                             c.dividendYield),
                         vega |-> calculateVega(
                             c.spotPrice, c.strikePrice, c.timeToExpiry,
                             c.riskFreeRate, c.volatility, c.dividendYield),
                         rho |-> calculateRho(
                             c.spotPrice, c.strikePrice, c.timeToExpiry,
                             c.riskFreeRate, c.volatility, c.optionType,
                             c.dividendYield)]]
    /\ UNCHANGED <<clock, submits, document, last, signalCall, solver>>

SpecExpiry == ExpiryInit /\ [][ExpiryReturn]_vars

(***************************************************************************)
(* calculateImpliedVolatility, one pass of its loop at a time              *)
(***************************************************************************)
SolverCall(optionPrice, spotPrice, strikePrice, timeToExpiry, riskFreeRate, optionType, dividendYield) ==
    [phase |-> "called", optionPrice |-> optionPrice, spotPrice |-> spotPrice,
     strikePrice |-> strikePrice, timeToExpiry |-> timeToExpiry,
     riskFreeRate |-> riskFreeRate, optionType |-> optionType,
     dividendYield |-> dividendYield, st |-> IVStart]

\* market prices the solver reaches, cannot reach, and loses its slope on;
\* an expired contract; and the calls the form lets through with a strike
\* below zero, an empty dividend field and an empty expiry
SolverCalls ==
    {SolverCall(Int2Num(1), Int2Num(10), Int2Num(8), timeToExpiration(30, 0),
                Lit(5, 100), "put", 0),
     SolverCall(Lit(5, 10), Int2Num(10), Int2Num(10), timeToExpiration(30, 0),
                Lit(5, 100), "call", 0),
     SolverCall(0, Int2Num(10), Int2Num(8), timeToExpiration(30, 0),
                Lit(5, 100), "put", 0),
     SolverCall(Int2Num(2), Int2Num(10), Int2Num(8), timeToExpiration(30, 0),
                Lit(5, 100), "put", 0),
     SolverCall(Int2Num(9), Int2Num(10), Int2Num(10), timeToExpiration(30, 0),
                Lit(5, 100), "call", 0),
     SolverCall(Lit(5, 10), Int2Num(10), Int2Num(8), timeToExpiration(30, 0),
                Lit(5, 100), "call", 0),
     SolverCall(Neg(Lit(5, 10)), Int2Num(10), Int2Num(10),
                timeToExpiration(30, 0), Lit(5, 100), "call", 0),
     SolverCall(Lit(5, 10), Int2Num(10), Int2Num(10), timeToExpiration(1, 1),
                Lit(5, 100), "call", 0),
     SolverCall(Lit(5, 10), Int2Num(10), Neg(Int2Num(10)),
                timeToExpiration(30, 0), Lit(5, 100), "call", 0),
     SolverCall(Lit(5, 10), Int2Num(10), Int2Num(10), timeToExpiration(30, 0),
                Lit(5, 100), "call", NaN),
     SolverCall(Lit(5, 10), Int2Num(10), Int2Num(10), timeToExpiration(NaN, 0),
                Lit(5, 100), "call", 0)}

SolverInit ==
    /\ solver \in SolverCalls
    /\ clock = 0
    /\ submits = 0
    /\ document = InitialDocument
    /\ last = Idle
    /\ signalCall = Idle
    /\ expiryCall = Idle

\* the test made before the loop
SolverEnter ==
    /\ solver.phase = "called"
    /\ solver' =
           IF Le(solver.timeToExpiry, 0)
           THEN [solver EXCEPT !.phase = "returned", !.st.done = TRUE]
           ELSE [solver EXCEPT !.phase = "looping"]
    /\ UNCHANGED <<clock, submits, document, last, signalCall, expiryCall>>

\* one pass through the loop body
SolverIterate ==
    /\ solver.phase = "looping"
    /\ LET st == IVStep(solver.st, solver.optionPrice, solver.spotPrice,
                        solver.strikePrice, solver.timeToExpiry,
                        solver.riskFreeRate, solver.optionType,
                        solver.dividendYield)
       IN  solver' = [solver EXCEPT
                          !.st = st,
                          !.phase = IF st.done THEN "returned" ELSE "looping"]
    /\ UNCHANGED <<clock, submits, document, last, signalCall, expiryCall>>

SolverNext == SolverEnter \/ SolverIterate

SpecSolver == SolverInit /\ [][SolverNext]_vars

(***************************************************************************)
(* Submissions one after another                                           *)
(***************************************************************************)
MaxSequence == 2

\* a form with a volatility estimate, a position and three target fields
TargetForm(positionSize, t1, t2, t3) ==
    [BaseForm EXCEPT !.volatility = Int2Num(20),
                     !.positionSize = positionSize, !.priceTarget1 = t1,
                     !.priceTarget2 = t2, !.priceTarget3 = t3]

\* positions with targets in some or all fields, targets of 0, no position,
\* no targets, and forms that fail validation
SequenceForms ==
    {TargetForm(Int2Num(2), Int2Num(11), Int2Num(12), Blank),
     TargetForm(Int2Num(2), 0, Int2Num(11), Blank),
     TargetForm(Int2Num(2), Int2Num(9), Blank, Blank),
     TargetForm(Int2Num(2), Blank, Int2Num(11), Blank),
     TargetForm(Int2Num(2), Int2Num(9), Int2Num(11), Int2Num(12)),
     TargetForm(Blank, Int2Num(11), Blank, Blank),
     TargetForm(Int2Num(2), Blank, Blank, Blank),
     TargetForm(0, Int2Num(11), Blank, Blank),
     [TargetForm(Int2Num(2), Int2Num(9), Int2Num(11), Blank)
          EXCEPT !.optionType = "put"],
     [TargetForm(Int2Num(3), Int2Num(12), Blank, Blank)
          EXCEPT !.currentPrice = Lit(5, 10)],
     [TargetForm(Blank, Blank, Blank, Blank)
          EXCEPT !.currentPrice = Lit(5, 10)],
     [TargetForm(Int2Num(2), Int2Num(11), Blank, Blank)
          EXCEPT !.strike = Blank],
     [TargetForm(Blank, Blank, Blank, Blank) EXCEPT !.symbol = ""],
     [TargetForm(Blank, Blank, Blank, Blank) EXCEPT !.expiry = 0]}

\* A submit event on the page as the earlier submissions left it.
SequenceSubmit(form) ==
    /\ submits < MaxSequence
    /\ LET handled == handleFormSubmit(document, form, clock, clock)
       IN  /\ document' = handled.document
           /\ last' = handled.call
    /\ submits' = submits + 1
    /\ UNCHANGED <<clock, signalCall, expiryCall, solver>>

SequenceNext == \E form \in SequenceForms : SequenceSubmit(form)

SpecSequence == Init /\ [][SequenceNext]_vars

(***************************************************************************)
(* Properties                                                              *)
(***************************************************************************)
\* what calculateImpliedVolatility returns for the latest submission's
\* market price
SolvedVolatility ==
    calculateImpliedVolatility(
        last.formData.contract.currentPrice,
        last.formData.marketData.underlyingPrice,
        last.formData.contract.strikePrice, last.result.timeToExpiry,
        last.formData.marketData.riskFreeRate,
        last.formData.contract.optionType,
        last.formData.marketData.dividendYield)

\* the volatility the precedence gives when priceGiven says whether the
\* market price counts as given
PrecedenceVolatility(priceGiven) ==
    IF Truthy(last.formData.volatilityEstimate)
    THEN last.formData.volatilityEstimate
    ELSE IF priceGiven
    THEN Let(SolvedVolatility,
             LAMBDA solved : IF solved # Null THEN solved ELSE Lit(3, 10))
    ELSE Lit(3, 10)

\* the analysis outputs are those of the returned impliedVolatility
OutputsUseReturnedVolatility ==
    last.result =
        analysisOutputs(last.formData.contract, last.formData.marketData,
                        last.result.timeToExpiry,
                        last.result.impliedVolatility, last.result.ivInvoked)

\* C1, as stated: analyzeOption uses a truthy estimate without invoking the
\* solver; otherwise, if a market price is given (any number, zero included),
\* the solver's result when it has one; otherwise 0.30; and the returned
\* impliedVolatility is the volatility of the price and of all five Greeks.
C1_PrecedenceAnyPriceGiven ==
    last.analyzed =>
        /\ last.result.impliedVolatility =
               PrecedenceVolatility(last.formData.contract.currentPrice # Null)
        /\ Truthy(last.formData.volatilityEstimate) => ~last.result.ivInvoked
        /\ OutputsUseReturnedVolatility

\* C1, amended: the same precedence with the market price counting as given
\* only when it is truthy (a number other than 0); the solver is invoked
\* exactly when there is no truthy estimate and the market price is truthy.
C1_PrecedenceTruthyPrice ==
    last.analyzed =>
        /\ last.result.impliedVolatility =
               PrecedenceVolatility(Truthy(last.formData.contract.currentPrice))
        /\ last.result.ivInvoked =
               (~Truthy(last.formData.volatilityEstimate)
                /\ Truthy(last.formData.contract.currentPrice))
        /\ OutputsUseReturnedVolatility

\* C1 witness: no estimate, a market price, and the solver's result (not
\* the default) is the volatility returned
C1_SolvedVolatilityUsed ==
    /\ last.analyzed
    /\ last.formData.volatilityEstimate = Null
    /\ Truthy(last.formData.contract.currentPrice)
    /\ last.result.ivInvoked
    /\ last.result.impliedVolatility # Lit(3, 10)
    /\ last.result.impliedVolatility = SolvedVolatility

\* C2: a submission with strike <= 0, spot <= 0 or an expiration that is not
\* after the as-of timestamp ends in a validation error, analyzeOption does
\* not run and no results are shown.
C2_InvalidInputRejected ==
    (/\ submits > 0
     /\ \/ Le(last.formData.contract.strikePrice, 0)
        \/ Le(last.formData.marketData.underlyingPrice, 0)
        \/ ~Gt(last.formData.contract.expirationDate,
               last.formData.marketData.timestamp))
    => /\ last.error # ""
       /\ ~last.analyzed
       /\ document.hidden["results"]

\* C5: every signal has an action among BUY, SELL, HOLD, AVOID and a
\* confidence that is a number in [0, 1].
C5_SignalWellFormed ==
    last.analyzed =>
        /\ last.signal.action \in {"BUY", "SELL", "HOLD", "AVOID"}
        /\ Ge(last.signal.confidence, 0)
        /\ Le(last.signal.confidence, Int2Num(1))

\* C8: the time to expiry of every analysis is a number >= 0, and exactly 0
\* for an expiration at or before the as-of instant.
C8_TimeToExpiryNonNegative ==
    last.analyzed =>
        /\ Ge(last.result.timeToExpiry, 0)
        /\ Le(last.formData.contract.expirationDate,
              last.formData.marketData.timestamp)
               => last.result.timeToExpiry = 0

\* the rows the latest submission's projection wrote
WrittenRows ==
    IF last.analyzed /\ Truthy(last.formData.pnlData.positionSize)
    THEN {i \in 1..Len(last.formData.pnlData.priceTargets) :
              Truthy(last.formData.pnlData.priceTargets[i])}
    ELSE {}

\* C10: each target row is priced by one blackScholesPrice call whose spot
\* is the target and whose strike, type, time to expiry, rate, dividend
\* yield and volatility are those of the analysis (the volatility being
\* result.impliedVolatility).
C10_ProjectionReusesAnalysis ==
    \A i \in WrittenRows :
        /\ document.pnlTarget[i].display = "block"
        /\ document.pnlTarget[i].priced =
               <<PricingCall(last.formData.pnlData.priceTargets[i],
                             last.formData.contract.strikePrice,
                             last.result.timeToExpiry,
                             last.formData.marketData.riskFreeRate,
                             last.result.impliedVolatility,
                             last.formData.contract.optionType,
                             last.formData.marketData.dividendYield)>>

\* C10 witness: a row priced at a target other than the spot, with a solved
\* volatility and a time to expiry taken after the clock moved
C10_RowPricedAtSolvedVolatility ==
    /\ 1 \in WrittenRows
    /\ last.result.ivInvoked
    /\ last.result.impliedVolatility # Lit(3, 10)
    /\ document.pnlTarget[1].priced[1].volatility = last.result.impliedVolatility
    /\ document.pnlTarget[1].priced[1].spotPrice
           # last.formData.marketData.underlyingPrice
    /\ last.formData.marketData.timestamp = 1

\* the signal of a generateTradingSignal call follows the priority order,
\* absent saying when the market price counts as absent
SignalPriority(absent) ==
    signalCall.phase = "returned" =>
        /\ absent =>
               /\ signalCall.signal.action = "HOLD"
               /\ signalCall.signal.confidence = 0
               /\ signalCall.signal.edge = 0
               /\ signalCall.signal.marketPrice = 0
               /\ signalCall.signal.fairValue
                      = signalCall.result.theoreticalPrice
        /\ (~absent /\ Lt(signalCall.result.timeToExpiry, Lit(2, 100))) =>
               /\ signalCall.signal.action = "AVOID"
               /\ signalCall.signal.confidence = Lit(8, 10)
        /\ (~absent /\ ~Lt(signalCall.result.timeToExpiry, Lit(2, 100))) =>
               /\ signalCall.signal.reasoning = "edge"
               /\ signalCall.signal.action \in {"BUY", "SELL", "HOLD"}

\* C3, as stated: HOLD with confidence 0 when the market price is absent
\* (null); otherwise AVOID with confidence 0.8 when timeToExpiry < 0.02;
\* only otherwise the edge branches.
C3_PriorityPriceAbsent ==
    SignalPriority(signalCall.contract.currentPrice = Null)

\* C3, amended: the same order with the market price counting as absent
\* when it is falsy (null or 0).
C3_PriorityPriceFalsy ==
    SignalPriority(~Truthy(signalCall.contract.currentPrice))

\* C3 witness: a market price, less than 0.02 years left and an edge beyond
\* the threshold, and the signal is AVOID
C3_AvoidDespiteEdge ==
    /\ signalCall.phase = "returned"
    /\ Truthy(signalCall.contract.currentPrice)
    /\ Lt(signalCall.result.timeToExpiry, Lit(2, 100))
    /\ Gt(signalCall.signal.edge, signalCall.edgeThreshold)
    /\ Gt(signalCall.edgeThreshold, 0)
    /\ signalCall.signal.action = "AVOID"

\* (fairValue - marketPrice) / marketPrice of a generateTradingSignal call
RelativeEdge ==
    Div(Sub(signalCall.result.theoreticalPrice,
            signalCall.contract.currentPrice),
        signalCall.contract.currentPrice)

\* C4, as stated: with a market price and timeToExpiry >= 0.02, and edge =
\* (fairValue - marketPrice) / marketPrice, the action is BUY iff edge >
\* threshold, SELL iff edge < -threshold, HOLD otherwise.
C4_ThresholdsAsStated ==
    (/\ signalCall.phase = "returned"
     /\ signalCall.contract.currentPrice # Null
     /\ Ge(signalCall.result.timeToExpiry, Lit(2, 100)))
    => /\ signalCall.signal.action = "BUY"
              <=> Gt(RelativeEdge, signalCall.edgeThreshold)
       /\ signalCall.signal.action = "SELL"
              <=> Lt(RelativeEdge, Neg(signalCall.edgeThreshold))
       /\ signalCall.signal.action \in {"BUY", "SELL", "HOLD"}

\* C4, amended: with a truthy market price and timeToExpiry >= 0.02, and
\* edge = (fairValue - marketPrice) / marketPrice for a market price above 0
\* and 0 for one below, the action is BUY iff edge > threshold, SELL iff
\* edge < -threshold and not edge > threshold, HOLD otherwise; an edge equal
\* to +threshold is not BUY and one equal to -threshold is not SELL.
C4_ThresholdsInOrder ==
    (/\ signalCall.phase = "returned"
     /\ Truthy(signalCall.contract.currentPrice)
     /\ Ge(signalCall.result.timeToExpiry, Lit(2, 100)))
    => /\ signalCall.signal.edge =
              IF Gt(signalCall.contract.currentPrice, 0) THEN RelativeEdge
              ELSE 0
       /\ signalCall.signal.action = "BUY"
              <=> Gt(signalCall.signal.edge, signalCall.edgeThreshold)
       /\ signalCall.signal.action = "SELL"
              <=> (/\ ~Gt(signalCall.signal.edge, signalCall.edgeThreshold)
                   /\ Lt(signalCall.signal.edge, Neg(signalCall.edgeThreshold)))
       /\ signalCall.signal.action \in {"BUY", "SELL", "HOLD"}
       /\ StrictEq(signalCall.signal.edge, signalCall.edgeThreshold)
              => signalCall.signal.action # "BUY"
       /\ StrictEq(signalCall.signal.edge, Neg(signalCall.edgeThreshold))
              => signalCall.signal.action # "SELL"

\* C4 witness: an edge exactly at a positive threshold, and the signal is
\* HOLD
C4_HoldAtThreshold ==
    /\ signalCall.phase = "returned"
    /\ Truthy(signalCall.contract.currentPrice)
    /\ Ge(signalCall.result.timeToExpiry, Lit(2, 100))
    /\ Gt(signalCall.edgeThreshold, 0)
    /\ StrictEq(signalCall.signal.edge, signalCall.edgeThreshold)
    /\ signalCall.signal.action = "HOLD"

\* min(|edge| / edgeThreshold, 1.0) of a generateTradingSignal call
ComputedConfidence ==
    MathMin(Div(Abs(signalCall.signal.edge), signalCall.edgeThreshold),
            Int2Num(1))

\* C6: in the edge branch a HOLD reports 1 - c and a BUY or SELL reports c,
\* with c = min(|edge| / edgeThreshold, 1.0); so a HOLD has confidence 1 at
\* edge 0 and confidence 0 when |edge| equals the threshold.
C6_HoldConfidence ==
    (signalCall.phase = "returned" /\ signalCall.signal.reasoning = "edge")
    => /\ signalCall.signal.action = "HOLD"
              => signalCall.signal.confidence
                     = Sub(Int2Num(1), ComputedConfidence)
       /\ signalCall.signal.action \in {"BUY", "SELL"}
              => signalCall.signal.confidence = ComputedConfidence
       /\ (signalCall.signal.action = "HOLD" /\ signalCall.signal.edge = 0)
              => signalCall.signal.confidence = Int2Num(1)
       /\ (/\ signalCall.signal.action = "HOLD"
           /\ signalCall.signal.edge # 0
           /\ StrictEq(Abs(signalCall.signal.edge), signalCall.edgeThreshold))
              => signalCall.signal.confidence = 0

\* the value of the option at expiry
IntrinsicValue ==
    IF expiryCall.optionType = "call"
    THEN (IF expiryCall.spotPrice > expiryCall.strikePrice
          THEN expiryCall.spotPrice - expiryCall.strikePrice ELSE 0)
    ELSE (IF expiryCall.strikePrice > expiryCall.spotPrice
          THEN expiryCall.strikePrice - expiryCall.spotPrice ELSE 0)

\* C7: for timeToExpiry <= 0 the price is the intrinsic value, delta is 1
\* for a call with spot above strike, -1 for a put with spot below strike
\* and 0 otherwise, and gamma, theta, vega and rho are 0.
C7_ValuesAtExpiry ==
    (expiryCall.phase = "returned" /\ expiryCall.timeToExpiry <= 0)
    => /\ expiryCall.returned.price = IntrinsicValue
       /\ expiryCall.returned.delta =
              IF expiryCall.optionType = "call"
              THEN (IF expiryCall.spotPrice > expiryCall.strikePrice
                    THEN SCALE ELSE 0)
              ELSE (IF expiryCall.spotPrice < expiryCall.strikePrice
                    THEN 0 - SCALE ELSE 0)
       /\ expiryCall.returned.gamma = 0
       /\ expiryCall.returned.theta = 0
       /\ expiryCall.returned.vega = 0
       /\ expiryCall.returned.rho = 0

\* C7 witness: a put past expiry with spot below strike and volatility 0,
\* worth strike - spot with delta -1
C7_PutInTheMoneyAtExpiry ==
    /\ expiryCall.phase = "returned"
    /\ expiryCall.timeToExpiry < 0
    /\ expiryCall.volatility = 0
    /\ expiryCall.optionType = "put"
    /\ expiryCall.spotPrice = Int2Num(8)
    /\ expiryCall.strikePrice = Int2Num(10)
    /\ expiryCall.returned.price = Int2Num(2)
    /\ expiryCall.returned.delta = 0 - SCALE

\* the model price at the volatility the solver returned
PriceAtResult ==
    blackScholesPrice(solver.spotPrice, solver.strikePrice,
                      solver.timeToExpiry, solver.riskFreeRate,
                      solver.st.result, solver.optionType,
                      solver.dividendYield)

\* C9: the solver makes at most maxIterations passes; it returns null or a
\* volatility in [0.001, 5.0] whose model price is within the tolerance of
\* the observed price; it returns null without a pass when T <= 0; and
\* every iterate is 0.30 or within [0.001, 5.0].
C9_SolverBounded ==
    solver.phase \in {"looping", "returned"} =>
        /\ solver.st.i <= maxIterations
        /\ solver.phase = "looping" => ~solver.st.done
        /\ (solver.phase = "returned" /\ solver.st.result # Null) =>
               /\ Ge(solver.st.result, Lit(1, 1000))
               /\ Le(solver.st.result, Int2Num(5))
               /\ Lt(Abs(Sub(PriceAtResult, solver.optionPrice)), tolerance)
        /\ Le(solver.timeToExpiry, 0) =>
               /\ solver.phase = "returned"
               /\ solver.st.i = 0
               /\ solver.st.result = Null
        /\ Ge(solver.st.volatility, Lit(1, 1000))
        /\ Le(solver.st.volatility, Int2Num(5))

\* the latest submission has a position and targets to project
PositionProjected ==
    /\ last.analyzed
    /\ Truthy(last.formData.pnlData.positionSize)
    /\ Len(last.formData.pnlData.priceTargets) > 0

\* positionSize * currentOptionPrice * 100 with currentOptionPrice the
\* market price of the signal when it is above 0 and the theoretical price
\* otherwise
InvestmentAtPositivePrice ==
    positionValue(last.formData.pnlData.positionSize,
                  IF last.signal.marketPrice # Null
                     /\ Gt(last.signal.marketPrice, 0)
                  THEN last.signal.marketPrice
                  ELSE last.result.theoreticalPrice)

\* positionSize * revaluedPrice * 100 of a written row
RevaluedPosition(row) ==
    positionValue(last.formData.pnlData.positionSize,
                  blackScholesPrice(row.priced[1].spotPrice,
                                    row.priced[1].strikePrice,
                                    row.priced[1].timeToExpiry,
                                    row.priced[1].riskFreeRate,
                                    row.priced[1].volatility,
                                    row.priced[1].optionType,
                                    row.priced[1].dividendYield))

\* C11: the total investment shown is positionSize x currentOptionPrice x
\* 100, with currentOptionPrice = signal.marketPrice when that is > 0 and
\* result.theoreticalPrice otherwise (a negative entered price included),
\* and each target's pnl is positionSize x revaluedPrice x 100 minus that
\* total investment.
C11_InvestmentAtPositivePrice ==
    PositionProjected =>
        /\ document.textContent["totalInvestment"]
               = RoundTo(InvestmentAtPositivePrice, 10)
        /\ \A i \in WrittenRows :
               document.pnlTarget[i].pnl =
                   RoundTo(Sub(RevaluedPosition(document.pnlTarget[i]),
                               InvestmentAtPositivePrice), 10)

\* C12: after any sequence of submissions the PnL card is hidden when the
\* latest submission has no position size or no targets; otherwise every
\* target row on display was written by the latest submission from its own
\* target (a row whose target is missing or skipped is not left on display
\* from an earlier submission).
C12_RowsOfLatestSubmission ==
    (submits > 0 /\ last.analyzed) =>
        /\ ~PositionProjected => document.hidden["pnlCard"]
        /\ PositionProjected =>
               \A i \in 1..3 :
                   document.pnlTarget[i].display = "block" =>
                       /\ i \in WrittenRows
                       /\ document.pnlTarget[i].priced[1].spotPrice
                              = last.formData.pnlData.priceTargets[i]
                       /\ document.pnlTarget[i].targetPrice
                              = toFixed(last.formData.pnlData.priceTargets[i],
                                        2)

\* C15: after any sequence of submissions the results section and the
\* error panel are never both on display; when the latest submission
\* failed the error panel is shown and the results section is not; and the
\* loading indicator is hidden.
C15_ResultsOrError ==
    submits > 0 =>
        /\ document.hidden["results"] \/ document.hidden["error"]
        /\ last.error # "" =>
               (~document.hidden["error"] /\ document.hidden["results"])
        /\ document.hidden["loadingIndicator"]

\* the solver ran on the market price of the latest submission and
\* converged
SolverConverged ==
    /\ last.analyzed
    /\ last.result.ivInvoked
    /\ SolvedVolatility # Null

\* C13: when no estimate is supplied and the solver converges on the market
\* price, the theoretical price is within 1e-6 of the market price, so for
\* a market price >= 0.01 and an edge threshold >= 0.001 the signal is
\* HOLD, or AVOID when timeToExpiry < 0.02, never BUY or SELL.
C13_ConvergedNeverTrades ==
    (/\ SolverConverged
     /\ Ge(last.formData.contract.currentPrice, Lit(1, 100))
     /\ Ge(last.formData.edgeThreshold, Lit(1, 1000)))
    => /\ Lt(Abs(Sub(last.result.theoreticalPrice,
                     last.formData.contract.currentPrice)), Lit(1, 10^6))
       /\ last.signal.action =
              IF Lt(last.result.timeToExpiry, Lit(2, 100)) THEN "AVOID"
              ELSE "HOLD"

\* C13 witness: a solved volatility other than the default, an edge
\* threshold of 0.001, a month to expiry, and the signal is HOLD
C13_SolvedHold ==
    /\ SolverConverged
    /\ last.formData.edgeThreshold = Lit(1, 1000)
    /\ last.result.impliedVolatility # Lit(3, 10)
    /\ last.result.theoreticalPrice # last.formData.contract.currentPrice
    /\ last.signal.action = "HOLD"

\* C14: for every edgeThreshold > 0 each BUY and each SELL signal has
\* confidence exactly 1.0, and each AVOID signal has confidence 0.8 whatever
\* the threshold.
C14_TradeConfidenceOne ==
    signalCall.phase = "returned" =>
        /\ (/\ Gt(signalCall.edgeThreshold, 0)
            /\ signalCall.signal.action \in {"BUY", "SELL"})
               => signalCall.signal.confidence = Int2Num(1)
        /\ signalCall.signal.action = "AVOID"
               => signalCall.signal.confidence = Lit(8, 10)

\* C14 witness: a SELL at a positive threshold whose edge is beyond the
\* threshold by no more than a factor of two, with confidence 1
C14_SellJustBeyondThreshold ==
    /\ signalCall.phase = "returned"
    /\ Gt(signalCall.edgeThreshold, 0)
    /\ signalCall.signal.action = "SELL"
    /\ Ge(signalCall.signal.edge,
          Neg(Mul(Int2Num(2), signalCall.edgeThreshold)))
    /\ signalCall.signal.confidence = Int2Num(1)

====
